---- MODULE Spec2Model ----
(***************************************************************************)
(* Similarity search (PostgresHCADClient.find_similar_properties) and      *)
(* value estimation (PropertyValueEstimator.estimate_property_value) of    *)
(* the HDI API, as a state machine over a property store.                  *)
(*                                                                         *)
(* Units: money in dollars, areas in square feet, distances in thousandths *)
(* of a mile, coordinates in the arc that is a thousandth of a mile along  *)
(* a meridian (69 of them to a thousandth of a degree).  Python floats     *)
(* that are results of divisions (estimates, confidences, scores) are      *)
(* exact rationals [n, d].  SQL NULL and Python None are the empty         *)
(* sequence, a present value x is <<x>>.                                   *)
(***************************************************************************)
EXTENDS Integers, Sequences, FiniteSets, TLC

\* store: table `properties`.  db_pool: the connections of the module's
\* connection pool that are checked out.  perplexity_cache: the module's
\* cache of LLM responses, by key.  property_cache: the module's other
\* InMemoryCache, with its fields.  now: the clock datetime.now() reads.
\* pc, call, result, raised, events, locals: the call being observed, what it
\* returned or raised, the collaborators it used and its local variables
\* when it ended.
VARIABLES store, db_pool, perplexity_cache, property_cache, now,
          pc, call, result, raised, events, locals

vars == <<store, db_pool, perplexity_cache, property_cache, now,
          pc, call, result, raised, events, locals>>

-----------------------------------------------------------------------------
(* Bounds of the model *)

\* at most this many catalogue rows are in the store
MaxRows == 3
\* at most this many further valued comparables lie around the subject
MaxFill == 9

-----------------------------------------------------------------------------
(* None / NULL *)

None == <<>>

Some(x) == <<x>>

\* Python truthiness of an optional number: None and 0 are falsy
Truthy(o) == o # None /\ o[1] # 0

\* Python `a or b` on optional numbers
OrElse(a, b) == IF Truthy(a) THEN a ELSE b

\* float(x or 0)
FloatOrZero(o) == IF Truthy(o) THEN o[1] ELSE 0

\* float(x) if x else None
FloatOrNone(o) == IF Truthy(o) THEN o ELSE None

-----------------------------------------------------------------------------
(* Float arithmetic, exact *)

Abs(x) == IF x < 0 THEN -x ELSE x

RECURSIVE GCD(_, _)
GCD(a, b) == IF b = 0 THEN a ELSE GCD(b, a % b)

\* the rational n/d (d > 0) in lowest terms
Rat(n, d) ==
    LET g == GCD(Abs(n), d)
    IN  [n |-> n \div g, d |-> d \div g]

\* the least common multiple of two positive numbers
LCM(a, b) == (a \div GCD(a, b)) * b

\* sums, differences and comparisons are taken over the least common
\* denominator
RatAdd(a, b) ==
    LET l == LCM(a.d, b.d)
    IN  Rat(a.n * (l \div a.d) + b.n * (l \div b.d), l)

RatSub(a, b) ==
    LET l == LCM(a.d, b.d)
    IN  Rat(a.n * (l \div a.d) - b.n * (l \div b.d), l)

RatMul(a, b) == Rat(a.n * b.n, a.d * b.d)

\* a / b for b > 0
RatDiv(a, b) == Rat(a.n * b.d, a.d * b.n)

RatLT(a, b) ==
    LET l == LCM(a.d, b.d)
    IN  a.n * (l \div a.d) < b.n * (l \div b.d)

RatLE(a, b) ==
    LET l == LCM(a.d, b.d)
    IN  a.n * (l \div a.d) <= b.n * (l \div b.d)

RatMin(a, b) == IF RatLE(a, b) THEN a ELSE b

RatMax(a, b) == IF RatLE(a, b) THEN b ELSE a

RatAbs(a) == [n |-> Abs(a.n), d |-> a.d]

Min(a, b) == IF a <= b THEN a ELSE b

RECURSIVE RatSum(_)
RatSum(s) == IF s = <<>> THEN Rat(0, 1) ELSE RatAdd(s[1], RatSum(Tail(s)))

\* statistics.mean of a non-empty sequence of rationals
Mean(s) == RatDiv(RatSum(s), Rat(Len(s), 1))

\* s with x inserted before the first element greater than x
RECURSIVE InsertAsc(_, _)
InsertAsc(x, s) ==
    IF s = <<>> THEN <<x>>
    ELSE IF x < s[1] THEN <<x>> \o s
    ELSE <<s[1]>> \o InsertAsc(x, Tail(s))

RECURSIVE SortAsc(_)
SortAsc(s) == IF s = <<>> THEN <<>> ELSE InsertAsc(s[1], SortAsc(Tail(s)))

\* statistics.median of a non-empty sequence of integers
Median(s) ==
    LET t == SortAsc(s)
        k == Len(t)
    IN  IF k % 2 = 1 THEN Rat(t[(k + 1) \div 2], 1)
        ELSE Rat(t[k \div 2] + t[k \div 2 + 1], 2)

\* round(x, 2) of a distance held in thousandths: nearest hundredth, an
\* exact tie going to the even hundredth
Round2(x) ==
    LET q == x \div 10
        r == x % 10
    IN  IF r < 5 THEN 10 * q
        ELSE IF r > 5 THEN 10 * (q + 1)
        ELSE IF q % 2 = 0 THEN 10 * q ELSE 10 * (q + 1)

-----------------------------------------------------------------------------
(* The property store: table `properties` *)

\* latitude of the subject / reference parcel (29.760 N)
RefLat == (29 * 1000 + 760) * 69

\* all modelled parcels lie on one meridian (95.360 W)
Meridian == (0 - 95360) * 69

\* the latitude k thousandths of a degree north of the reference parcel
North(k) == RefLat + 69 * k

Row(acct, addr, type, tv, sqft, lat, lon) ==
    [account_number |-> acct, property_address |-> addr, property_type |-> type,
     total_value |-> tv, area_sqft |-> sqft,
     centroid_lat |-> lat, centroid_lon |-> lon]

\* rows the similarity search is exercised on
SimCatalog ==
    { Row(1, "1 MAIN ST", "Real Property", Some(300000), Some(2000),
          Some(RefLat), Some(Meridian)),
      Row(2, "2 MAIN ST", "Real Property", Some(360000), Some(2400),
          Some(North(1)), Some(Meridian)),
      Row(3, "3 MAIN ST", "Real Property", Some(300000), Some(2000),
          Some(North(2)), Some(Meridian)),
      Row(4, "4 MAIN ST", "Real Property", Some(300000), Some(2000),
          Some(North(0 - 2)), Some(Meridian)),
      Row(5, "5 MAIN ST", "Personal Property", Some(300000), Some(2000),
          Some(North(1)), Some(Meridian)),
      Row(6, "6 MAIN ST", "Real Property", Some(300000), Some(2000),
          None, None),
      Row(7, "7 MAIN ST", "Real Property", Some(300000), Some(2000),
          Some(0), Some(Meridian)),
      Row(8, "8 MAIN ST", "Real Property", Some(1000000), Some(2000),
          Some(North(1)), Some(Meridian)),
      Row(9, "9 MAIN ST", "Real Property", None, None,
          Some(RefLat), Some(Meridian)),
      Row(31, "31 MAIN ST", "Real Property", Some(310000), Some(2100),
          Some(RefLat + 300), Some(Meridian)),
      Row(32, "32 MAIN ST", "Real Property", Some(300000), Some(2000),
          Some(RefLat + 5000), Some(Meridian)),
      Row(34, "34 MAIN ST", "Real Property", Some(240000), Some(1600),
          Some(RefLat + 1000), Some(Meridian)) }

\* rows the estimator's comparable lookup is exercised on
EstCatalog ==
    { Row(11, "1 ELM ST", "Real Property", Some(240000), Some(1600),
          Some(North(1)), Some(Meridian)),
      Row(12, "2 ELM ST", "Real Property", Some(360000), Some(0),
          Some(North(0 - 1)), Some(Meridian)),
      Row(13, "3 ELM ST", "Real Property", Some(1000000), None,
          Some(North(2)), Some(Meridian)),
      Row(14, "4 ELM ST", "Real Property", Some(300000), Some(2000),
          Some(North(30)), Some(Meridian)),
      Row(15, "5 ELM ST", "Personal Property", Some(300000), Some(2000),
          Some(North(1)), Some(Meridian)) }

\* the k valued parcels 101..100+k around the subject, each farther than the last
Fillers(k) ==
    { Row(100 + j, "OAK ST", "Real Property", Some(300000), Some(2000),
          Some(North(2 + j)), Some(Meridian)) : j \in 1..k }

\* the subsets of S with at most k rows
UpTo(S, k) == { T \in SUBSET S : Cardinality(T) <= k }

\* parcels whose value is asked for (value_estimator subjects)
SubjectRows ==
    { Row(21, "10 MAIN ST", "Real Property", None, Some(2000),
          Some(RefLat), Some(Meridian)),
      Row(22, "12 MAIN ST", "Real Property", Some(0), None,
          Some(RefLat), Some(Meridian)),
      Row(23, "", "Real Property", Some(0), Some(2000),
          Some(RefLat), Some(Meridian)),
      Row(24, "14 MAIN ST", "Real Property", Some(0), Some(2000),
          None, None),
      Row(25, "16 MAIN ST", "Real Property", Some(300000), Some(2000),
          Some(North(500)), Some(Meridian)),
      Row(26, "", "Real Property", None, None, None, None) }

-----------------------------------------------------------------------------
(* PostgresHCADClient._format_hcad_response *)

format_hcad_response(data) ==
    [account_number |-> data.account_number,
     property_address |-> data.property_address,
     market_value |-> FloatOrZero(data.total_value),
     total_value |-> FloatOrZero(data.total_value),
     property_type |-> data.property_type,
     building_sqft |-> FloatOrZero(data.area_sqft),
     latitude |-> FloatOrNone(data.centroid_lat),
     longitude |-> FloatOrNone(data.centroid_lon),
     geometry |-> [centroid |-> [lat |-> FloatOrNone(data.centroid_lat),
                                 lon |-> FloatOrNone(data.centroid_lon)]]]

-----------------------------------------------------------------------------
(* SQL *)

\* 3959 * acos(cos(lat) cos(clat) cos(clon - lon) + sin(lat) sin(clat)), in
\* thousandths of a mile.  Every modelled parcel is on one meridian, where
\* the expression is 3959 * |clat - lat| in radians: 69 miles to the degree,
\* one thousandth of a mile to the unit of latitude.
distance_miles(lat, lon, clat, clon) == Abs(clat - lat)

\* x BETWEEN lo AND hi on a nullable column held as n (NULL is never between)
Between(x, lo, hi) == x # None /\ lo <= x[1] /\ x[1] <= hi

\* ORDER BY distance_miles: every order of the rows of S by ascending
\* distance; rows at equal distance come in any order
RECURSIVE OrderByDistance(_)
OrderByDistance(S) ==
    IF S = {} THEN {<<>>}
    ELSE LET m == CHOOSE d \in {r.distance_miles : r \in S} :
                      \A r \in S : d <= r.distance_miles
         IN  UNION { { <<r>> \o t : t \in OrderByDistance(S \ {r}) } :
                     r \in {x \in S : x.distance_miles = m} }

\* LIMIT n, n >= 0
Limit(s, n) == SubSeq(s, 1, Min(n, Len(s)))

-----------------------------------------------------------------------------
(* PropertyValueEstimator *)

\* the comparables query's LIMIT (estimate_property_value passes limit=10)
ComparablesLimit == 10

\* the rows the comparables query selects, with their distance
ComparableRows(db, lat, lon, property_type) ==
    { [property_address |-> r.property_address,
       account_number |-> r.account_number,
       total_value |-> r.total_value[1],
       area_sqft |-> r.area_sqft,
       distance_miles |-> distance_miles(lat, lon, r.centroid_lat[1], r.centroid_lon[1])] :
      r \in { x \in db :
                /\ x.property_type = property_type
                /\ x.total_value # None /\ x.total_value[1] > 0
                /\ x.centroid_lat # None
                /\ x.centroid_lon # None
                /\ Between(x.centroid_lat, lat - 20 * 69, lat + 20 * 69)
                /\ Between(x.centroid_lon, lon - 20 * 69, lon + 20 * 69) } }

\* _find_comparable_properties: what it may return.  dbFails: the connection
\* or the query raises; the handler of line 157 turns that into [].
find_comparable_properties(db, lat, lon, property_type, limit, dbFails) ==
    IF ~Truthy(lat) \/ ~Truthy(lon) THEN { [raised |-> "none", rows |-> <<>>] }
    ELSE IF dbFails THEN { [raised |-> "none", rows |-> <<>>] }
    ELSE { [raised |-> "none", rows |-> Limit(o, limit)] :
           o \in OrderByDistance(ComparableRows(db, lat[1], lon[1], property_type)) }

\* the store accesses of a lookup run without the test of line 42
ComparableLookups_unconditional(lat, lon) == <<"store">>

\* the store accesses of _find_comparable_properties
ComparableLookups(lat, lon) ==
    IF ~Truthy(lat) \/ ~Truthy(lon) THEN <<>> ELSE <<"store">>

\* the first number of the response in the plausible range, if any
RECURSIVE FirstReasonable(_)
FirstReasonable(numbers) ==
    IF numbers = <<>> THEN None
    ELSE IF 10000 < numbers[1] /\ numbers[1] < 100000000
         THEN Some([estimate |-> Rat(numbers[1], 1), confidence |-> Rat(7, 10)])
    ELSE FirstReasonable(Tail(numbers))

\* _get_ai_estimate without the range test of line 205: the first number of
\* the response is the estimate
get_ai_estimate_first_number(address, property_data, comparables, llm) ==
    IF llm.kind = "raise" THEN [raised |-> "none", result |-> None]
    ELSE IF llm.success /\ llm.data # <<>>
    THEN [raised |-> "none",
          result |-> Some([estimate |-> Rat(llm.data[1], 1), confidence |-> Rat(7, 10)])]
    ELSE [raised |-> "none", result |-> None]

\* _get_ai_estimate without the handler of line 212: the LLM client's
\* exception leaves the function
get_ai_estimate_unhandled(address, property_data, comparables, llm) ==
    IF llm.kind = "raise" THEN [raised |-> "PerplexityAPIError", result |-> None]
    ELSE IF llm.success THEN [raised |-> "none", result |-> FirstReasonable(llm.data)]
    ELSE [raised |-> "none", result |-> None]

\* _get_ai_estimate.  llm is what self.perplexity.query does: it raises, or
\* it returns {success, data}; data is held as the numbers re.findall finds.
\* The handler of line 212 turns an exception into None.
get_ai_estimate(address, property_data, comparables, llm) ==
    IF llm.kind = "raise" THEN [raised |-> "none", result |-> None]
    ELSE IF llm.success THEN [raised |-> "none", result |-> FirstReasonable(llm.data)]
    ELSE [raised |-> "none", result |-> None]

\* Python truthiness of an optional float
RatTruthy(o) == o # None /\ o[1].n # 0

\* _combine_estimates without the branch of line 228: two absent estimates
\* are combined like two estimates of confidence 0
combine_estimates_no_absent_case(neighbor_est, neighbor_conf, ai_est, ai_conf) ==
    IF RatTruthy(neighbor_est) /\ ~RatTruthy(ai_est)
    THEN <<neighbor_est[1], neighbor_conf, "neighbor_only">>
    ELSE IF RatTruthy(ai_est) /\ ~RatTruthy(neighbor_est)
    THEN <<ai_est[1], ai_conf, "ai_only">>
    ELSE <<Rat(0, 1), Rat(5, 10), "combined_weighted">>

\* _combine_estimates with the plain average of the two estimates in place of
\* the confidence-weighted one of lines 240-243
combine_estimates_plain_average(neighbor_est, neighbor_conf, ai_est, ai_conf) ==
    IF RatTruthy(neighbor_est) /\ ~RatTruthy(ai_est)
    THEN <<neighbor_est[1], neighbor_conf, "neighbor_only">>
    ELSE IF RatTruthy(ai_est) /\ ~RatTruthy(neighbor_est)
    THEN <<ai_est[1], ai_conf, "ai_only">>
    ELSE IF ~RatTruthy(neighbor_est) /\ ~RatTruthy(ai_est)
    THEN <<Rat(0, 1), Rat(0, 1), "no_estimate">>
    ELSE
      LET total_conf == RatAdd(neighbor_conf, ai_conf)
          final_est == RatDiv(RatAdd(neighbor_est[1], ai_est[1]), Rat(2, 1))
          final_conf ==
              IF total_conf.n = 0 THEN Rat(5, 10)
              ELSE RatMin(Rat(9, 10), RatDiv(total_conf, Rat(2, 1)))
          agree ==
              RatLT(RatDiv(RatAbs(RatSub(neighbor_est[1], ai_est[1])),
                           RatMax(neighbor_est[1], ai_est[1])),
                    Rat(2, 10))
      IN  IF agree
          THEN <<final_est, RatMin(Rat(95, 100), RatAdd(final_conf, Rat(1, 10))),
                 "combined_agreement">>
          ELSE <<final_est, final_conf, "combined_weighted">>

\* _combine_estimates without the branches of lines 222-226: a single
\* estimate goes through the weighting, the absent one counting as 0
combine_estimates_no_single_case(neighbor_est, neighbor_conf, ai_est, ai_conf) ==
    IF ~RatTruthy(neighbor_est) /\ ~RatTruthy(ai_est)
    THEN <<Rat(0, 1), Rat(0, 1), "no_estimate">>
    ELSE
      LET n == IF RatTruthy(neighbor_est) THEN neighbor_est[1] ELSE Rat(0, 1)
          a == IF RatTruthy(ai_est) THEN ai_est[1] ELSE Rat(0, 1)
          total_conf == RatAdd(neighbor_conf, ai_conf)
      IN  IF total_conf.n = 0
          THEN <<RatDiv(RatAdd(n, a), Rat(2, 1)), Rat(5, 10), "combined_weighted">>
          ELSE <<RatDiv(RatAdd(RatMul(n, neighbor_conf), RatMul(a, ai_conf)), total_conf),
                 RatMin(Rat(9, 10), RatDiv(total_conf, Rat(2, 1))),
                 "combined_weighted">>

\* _combine_estimates without the division by total_conf of line 242
combine_estimates_unnormalised(neighbor_est, neighbor_conf, ai_est, ai_conf) ==
    IF RatTruthy(neighbor_est) /\ RatTruthy(ai_est)
    THEN <<RatAdd(RatMul(neighbor_est[1], neighbor_conf), RatMul(ai_est[1], ai_conf)),
           RatMin(Rat(9, 10), RatDiv(RatAdd(neighbor_conf, ai_conf), Rat(2, 1))),
           "combined_weighted">>
    ELSE combine_estimates_plain_average(neighbor_est, neighbor_conf, ai_est, ai_conf)

\* _combine_estimates returning the equal-weight confidence of line 235 where
\* line 229 returns 0
combine_estimates_absent_half(neighbor_est, neighbor_conf, ai_est, ai_conf) ==
    IF ~RatTruthy(neighbor_est) /\ ~RatTruthy(ai_est)
    THEN <<Rat(0, 1), Rat(5, 10), "no_estimate">>
    ELSE combine_estimates_plain_average(neighbor_est, neighbor_conf, ai_est, ai_conf)

combine_estimates(neighbor_est, neighbor_conf, ai_est, ai_conf) ==
    IF RatTruthy(neighbor_est) /\ ~RatTruthy(ai_est)
    THEN <<neighbor_est[1], neighbor_conf, "neighbor_only">>
    ELSE IF RatTruthy(ai_est) /\ ~RatTruthy(neighbor_est)
    THEN <<ai_est[1], ai_conf, "ai_only">>
    ELSE IF ~RatTruthy(neighbor_est) /\ ~RatTruthy(ai_est)
    THEN <<Rat(0, 1), Rat(0, 1), "no_estimate">>
    ELSE
      LET total_conf == RatAdd(neighbor_conf, ai_conf)
          final_est ==
              IF total_conf.n = 0
              THEN RatDiv(RatAdd(neighbor_est[1], ai_est[1]), Rat(2, 1))
              ELSE RatDiv(RatAdd(RatMul(neighbor_est[1], neighbor_conf),
                                 RatMul(ai_est[1], ai_conf)),
                          total_conf)
          final_conf ==
              IF total_conf.n = 0 THEN Rat(5, 10)
              ELSE RatMin(Rat(9, 10), RatDiv(total_conf, Rat(2, 1)))
          agree ==
              RatLT(RatDiv(RatAbs(RatSub(neighbor_est[1], ai_est[1])),
                           RatMax(neighbor_est[1], ai_est[1])),
                    Rat(2, 10))
      IN  IF agree
          THEN <<final_est, RatMin(Rat(95, 100), RatAdd(final_conf, Rat(1, 10))),
                 "combined_agreement">>
          ELSE <<final_est, final_conf, "combined_weighted">>

\* nothing was returned (no call yet, or the call raised)
NoResult == [nothing |-> TRUE]

\* no call is in progress: no locals
NoLocals == [nothing |-> TRUE]

\* what a call did: the exception that reached the caller ("none" if it
\* returned), the value returned, the collaborators it used, in order, and
\* its local variables when it ended
Outcome(exc, value, used, frame) ==
    [raised |-> exc, value |-> value, events |-> used, locals |-> frame]

\* lines 52-71 without the cap of line 71: the confidence is len(values) / 10
NeighborEstimate_uncapped(sqft, comparables) ==
    LET valued == SelectSeq(comparables, LAMBDA c : c.total_value > 0)
        values == [i \in 1..Len(valued) |-> valued[i].total_value]
        median == Median(values)
        with_area == SelectSeq(valued, LAMBDA c : c.area_sqft[1] > 0)
        avg_price_per_sqft ==
            Mean([i \in 1..Len(with_area) |->
                     Rat(with_area[i].total_value, with_area[i].area_sqft[1])])
        sqft_based_estimate == RatMul(avg_price_per_sqft, Rat(sqft, 1))
        confidence == Rat(Len(values), 10)
    IN  IF comparables = <<>> \/ values = <<>>
        THEN [raised |-> "none", estimate |-> None, confidence |-> Rat(0, 1)]
        ELSE IF sqft > 0 /\ comparables[1].area_sqft = None
        THEN [raised |-> "TypeError", estimate |-> None, confidence |-> Rat(0, 1)]
        ELSE IF sqft > 0 /\ comparables[1].area_sqft[1] > 0
        THEN IF \E i \in 1..Len(valued) : valued[i].area_sqft = None
             THEN [raised |-> "TypeError", estimate |-> None, confidence |-> Rat(0, 1)]
             ELSE [raised |-> "none",
                   estimate |-> Some(RatDiv(RatAdd(median, sqft_based_estimate), Rat(2, 1))),
                   confidence |-> confidence]
        ELSE [raised |-> "none", estimate |-> Some(median), confidence |-> confidence]

\* estimate_property_value, lines 52-71: the neighbour estimate from the
\* comparables.  Comparing None with 0 raises TypeError.
NeighborEstimate(sqft, comparables) ==
    LET valued == SelectSeq(comparables, LAMBDA c : c.total_value > 0)
        values == [i \in 1..Len(valued) |-> valued[i].total_value]
        median == Median(values)
        with_area == SelectSeq(valued, LAMBDA c : c.area_sqft[1] > 0)
        avg_price_per_sqft ==
            Mean([i \in 1..Len(with_area) |->
                     Rat(with_area[i].total_value, with_area[i].area_sqft[1])])
        sqft_based_estimate == RatMul(avg_price_per_sqft, Rat(sqft, 1))
        confidence == RatMin(Rat(8, 10), Rat(Len(values), 10))
    IN  IF comparables = <<>> \/ values = <<>>
        THEN [raised |-> "none", estimate |-> None, confidence |-> Rat(0, 1)]
        ELSE IF sqft > 0 /\ comparables[1].area_sqft = None
        THEN [raised |-> "TypeError", estimate |-> None, confidence |-> Rat(0, 1)]
        ELSE IF sqft > 0 /\ comparables[1].area_sqft[1] > 0
        THEN IF \E i \in 1..Len(valued) : valued[i].area_sqft = None
             THEN [raised |-> "TypeError", estimate |-> None, confidence |-> Rat(0, 1)]
             ELSE [raised |-> "none",
                   estimate |-> Some(RatDiv(RatAdd(median, sqft_based_estimate), Rat(2, 1))),
                   confidence |-> confidence]
        ELSE [raised |-> "none", estimate |-> Some(median), confidence |-> confidence]

\* estimate_property_value from line 49 on, the comparable lookup having
\* returned `lookup` after the store accesses `used`
EstimateWith(property_data, lookup, used, llm) ==
    LET address == property_data.property_address
        sqft == property_data.building_sqft
        comparables == lookup.rows
        neighbor == NeighborEstimate(sqft, comparables)
        ai == IF address # ""
              THEN get_ai_estimate(address, property_data, comparables, llm)
              ELSE [raised |-> "none", result |-> None]
        ai_estimate == IF ai.result # None THEN Some(ai.result[1].estimate) ELSE None
        ai_confidence == IF ai.result # None THEN ai.result[1].confidence ELSE Rat(0, 1)
        combined == combine_estimates(neighbor.estimate, neighbor.confidence,
                                      ai_estimate, ai_confidence)
        top5 == Limit(comparables, 5)
        used_llm == IF address # "" THEN used \o <<"llm">> ELSE used
    IN  IF lookup.raised # "none"
        THEN Outcome(lookup.raised, NoResult, used,
                     [comparables |-> <<>>,
                      neighbor_estimate |-> None, neighbor_confidence |-> Rat(0, 1),
                      ai_estimate |-> None, ai_confidence |-> Rat(0, 1)])
        ELSE IF neighbor.raised # "none"
        THEN Outcome(neighbor.raised, NoResult, used,
                     [comparables |-> comparables,
                      neighbor_estimate |-> None, neighbor_confidence |-> Rat(0, 1),
                      ai_estimate |-> None, ai_confidence |-> Rat(0, 1)])
        ELSE IF ai.raised # "none"
        THEN Outcome(ai.raised, NoResult, used_llm,
                     [comparables |-> comparables,
                      neighbor_estimate |-> neighbor.estimate,
                      neighbor_confidence |-> neighbor.confidence,
                      ai_estimate |-> None, ai_confidence |-> Rat(0, 1)])
        ELSE Outcome("none",
                 [estimated |-> TRUE,
                  value |-> combined[1],
                  confidence |-> combined[2],
                  method |-> combined[3],
                  comparables_used |-> Len(comparables),
                  estimation_details |->
                     [neighbor_based |-> neighbor.estimate,
                      ai_based |-> ai_estimate,
                      comparable_properties |->
                         [i \in 1..Len(top5) |->
                             [address |-> top5[i].property_address,
                              value |-> top5[i].total_value,
                              distance_miles |-> top5[i].distance_miles]]]],
                 used_llm,
                 [comparables |-> comparables,
                  neighbor_estimate |-> neighbor.estimate,
                  neighbor_confidence |-> neighbor.confidence,
                  ai_estimate |-> ai_estimate,
                  ai_confidence |-> ai_confidence])

\* estimate_property_value without the short-circuit of line 26
estimate_property_value_no_short_circuit(db, property_data, dbFails, llm) ==
    LET lat == OrElse(property_data.latitude, property_data.geometry.centroid.lat)
        lon == OrElse(property_data.longitude, property_data.geometry.centroid.lon)
    IN  { EstimateWith(property_data, lookup, ComparableLookups(lat, lon), llm) :
          lookup \in find_comparable_properties(
                         db, lat, lon, property_data.property_type,
                         ComparablesLimit, dbFails) }

\* estimate_property_value with the result of line 27 flagged as an estimate
estimate_property_value_actual_flagged(db, property_data, dbFails, llm) ==
    IF property_data.market_value > 0
    THEN { Outcome("none",
               [estimated |-> TRUE,
                value |-> Rat(property_data.market_value, 1),
                confidence |-> Rat(1, 1),
                method |-> "actual"],
               <<>>, NoLocals) }
    ELSE estimate_property_value_no_short_circuit(db, property_data, dbFails, llm)

\* estimate_property_value: every outcome the call may have
estimate_property_value(db, property_data, dbFails, llm) ==
    IF property_data.market_value > 0
    THEN { Outcome("none",
               [estimated |-> FALSE,
                value |-> Rat(property_data.market_value, 1),
                confidence |-> Rat(1, 1),
                method |-> "actual"],
               <<>>, NoLocals) }
    ELSE LET lat == OrElse(property_data.latitude, property_data.geometry.centroid.lat)
             lon == OrElse(property_data.longitude, property_data.geometry.centroid.lon)
         IN  { EstimateWith(property_data, lookup, ComparableLookups(lat, lon), llm) :
               lookup \in find_comparable_properties(
                              db, lat, lon, property_data.property_type,
                              ComparablesLimit, dbFails) }

\* lines 263-268: the fields the estimation adds to the record
Enhanced(property_data, estimation) ==
    IF estimation.estimated /\ RatLT(Rat(0, 1), estimation.value)
    THEN [estimated_market_value |-> estimation.value,
          estimation_confidence |-> estimation.confidence,
          value_estimation |-> estimation] @@ property_data
    ELSE [value_estimation |-> estimation] @@ property_data

\* enhance_property_with_estimation without the test of line 266: the two
\* compatibility fields are set after every estimation
enhance_property_with_estimation_always_sets(db, property_data, dbFails, llm) ==
    IF property_data.market_value = 0
    THEN { IF out.raised # "none"
           THEN Outcome(out.raised, NoResult,
                        <<"estimate_property_value">> \o out.events,
                        [property_data |-> property_data])
           ELSE LET enhanced == [estimated_market_value |-> out.value.value,
                                 estimation_confidence |-> out.value.confidence,
                                 value_estimation |-> out.value] @@ property_data
                IN  Outcome("none", enhanced,
                            <<"estimate_property_value">> \o out.events,
                            [property_data |-> enhanced]) :
           out \in estimate_property_value(db, property_data, dbFails, llm) }
    ELSE { Outcome("none", property_data, <<>>, [property_data |-> property_data]) }

\* enhance_property_with_estimation: every outcome the call may have.  The
\* dict is changed in place; locals.property_data is its content when the
\* call ends, returned or not.
enhance_property_with_estimation(db, property_data, dbFails, llm) ==
    IF property_data.market_value = 0
    THEN { IF out.raised # "none"
           THEN Outcome(out.raised, NoResult,
                        <<"estimate_property_value">> \o out.events,
                        [property_data |-> property_data])
           ELSE Outcome("none", Enhanced(property_data, out.value),
                        <<"estimate_property_value">> \o out.events,
                        [property_data |-> Enhanced(property_data, out.value)]) :
           out \in estimate_property_value(db, property_data, dbFails, llm) }
    ELSE { Outcome("none", property_data, <<>>, [property_data |-> property_data]) }

-----------------------------------------------------------------------------
(* PostgresHCADClient: similarity search *)

\* _calculate_similarity with neither the 0.5 cap of line 356 nor the clamp
\* of line 373
calculate_similarity_unbounded(prop1, prop2, distance) ==
    LET val1 == prop1.market_value
        val2 == prop2.market_value
        size1 == prop1.building_sqft
        size2 == prop2.building_sqft
        after_distance == RatSub(Rat(1, 1), Rat(distance, 2000))
        after_value ==
            IF val1 > 0 /\ val2 > 0
            THEN RatSub(after_distance,
                        RatMul(Rat(Abs(val1 - val2), IF val1 >= val2 THEN val1 ELSE val2),
                               Rat(3, 10)))
            ELSE after_distance
    IN  IF size1 > 0 /\ size2 > 0
        THEN RatSub(after_value,
                    RatMul(Rat(Abs(size1 - size2), IF size1 >= size2 THEN size1 ELSE size2),
                           Rat(2, 10)))
        ELSE after_value

\* _calculate_similarity without the size term of lines 367-371
calculate_similarity_no_size_term(prop1, prop2, distance) ==
    LET val1 == prop1.market_value
        val2 == prop2.market_value
        distance_penalty == RatMin(Rat(distance, 2000), Rat(5, 10))
        after_distance == RatSub(Rat(1, 1), distance_penalty)
        score ==
            IF val1 > 0 /\ val2 > 0
            THEN RatSub(after_distance,
                        RatMul(Rat(Abs(val1 - val2), IF val1 >= val2 THEN val1 ELSE val2),
                               Rat(3, 10)))
            ELSE after_distance
    IN  RatMax(Rat(0, 1), RatMin(Rat(1, 1), score))

\* _calculate_similarity without the 0.5 cap of line 356
calculate_similarity_uncapped_distance(prop1, prop2, distance) ==
    LET val1 == prop1.market_value
        val2 == prop2.market_value
        size1 == prop1.building_sqft
        size2 == prop2.building_sqft
        after_distance == RatSub(Rat(1, 1), Rat(distance, 2000))
        after_value ==
            IF val1 > 0 /\ val2 > 0
            THEN RatSub(after_distance,
                        RatMul(Rat(Abs(val1 - val2), IF val1 >= val2 THEN val1 ELSE val2),
                               Rat(3, 10)))
            ELSE after_distance
        score ==
            IF size1 > 0 /\ size2 > 0
            THEN RatSub(after_value,
                        RatMul(Rat(Abs(size1 - size2), IF size1 >= size2 THEN size1 ELSE size2),
                               Rat(2, 10)))
            ELSE after_value
    IN  RatMax(Rat(0, 1), RatMin(Rat(1, 1), score))

\* _calculate_similarity; distance in thousandths of a mile
calculate_similarity(prop1, prop2, distance) ==
    LET val1 == prop1.market_value
        val2 == prop2.market_value
        size1 == prop1.building_sqft
        size2 == prop2.building_sqft
        distance_penalty == RatMin(Rat(distance, 2000), Rat(5, 10))
        after_distance == RatSub(Rat(1, 1), distance_penalty)
        after_value ==
            IF val1 > 0 /\ val2 > 0
            THEN RatSub(after_distance,
                        RatMul(Rat(Abs(val1 - val2), IF val1 >= val2 THEN val1 ELSE val2),
                               Rat(3, 10)))
            ELSE after_distance
        score ==
            IF size1 > 0 /\ size2 > 0
            THEN RatSub(after_value,
                        RatMul(Rat(Abs(size1 - size2), IF size1 >= size2 THEN size1 ELSE size2),
                               Rat(2, 10)))
            ELSE after_value
    IN  RatMax(Rat(0, 1), RatMin(Rat(1, 1), score))

\* the similarity query without the value clause of lines 300-305
SimilarRows_no_value_filter(db, property_data, lat, lon, radius_miles) ==
    LET sqft == property_data.building_sqft
    IN  { [row |-> r,
           distance_miles |-> distance_miles(lat, lon, r.centroid_lat[1], r.centroid_lon[1])] :
          r \in { x \in db :
                    /\ x.centroid_lat # None
                    /\ x.centroid_lon # None
                    /\ x.property_type = property_data.property_type
                    /\ x.account_number # property_data.account_number
                    /\ distance_miles(lat, lon, x.centroid_lat[1], x.centroid_lon[1])
                          <= radius_miles
                    /\ (sqft > 0 =>
                          /\ x.area_sqft # None
                          /\ 8 * sqft <= 10 * x.area_sqft[1]
                          /\ 10 * x.area_sqft[1] <= 12 * sqft) } }

\* the similarity query with the value clause of line 301 added whatever the
\* reference's value
SimilarRows_value_filter_always(db, property_data, lat, lon, radius_miles) ==
    LET value == property_data.market_value
        sqft == property_data.building_sqft
    IN  { [row |-> r,
           distance_miles |-> distance_miles(lat, lon, r.centroid_lat[1], r.centroid_lon[1])] :
          r \in { x \in db :
                    /\ x.centroid_lat # None
                    /\ x.centroid_lon # None
                    /\ x.property_type = property_data.property_type
                    /\ x.account_number # property_data.account_number
                    /\ distance_miles(lat, lon, x.centroid_lat[1], x.centroid_lon[1])
                          <= radius_miles
                    /\ x.total_value # None
                    /\ 8 * value <= 10 * x.total_value[1]
                    /\ 10 * x.total_value[1] <= 12 * value
                    /\ (sqft > 0 =>
                          /\ x.area_sqft # None
                          /\ 8 * sqft <= 10 * x.area_sqft[1]
                          /\ 10 * x.area_sqft[1] <= 12 * sqft) } }

\* the rows the similarity query's WHERE clause keeps, each with its distance
SimilarRows(db, property_data, lat, lon, radius_miles) ==
    LET value == property_data.market_value
        sqft == property_data.building_sqft
    IN  { [row |-> r,
           distance_miles |-> distance_miles(lat, lon, r.centroid_lat[1], r.centroid_lon[1])] :
          r \in { x \in db :
                    /\ x.centroid_lat # None
                    /\ x.centroid_lon # None
                    /\ x.property_type = property_data.property_type
                    /\ x.account_number # property_data.account_number
                    /\ distance_miles(lat, lon, x.centroid_lat[1], x.centroid_lon[1])
                          <= radius_miles
                    /\ (value > 0 =>
                          /\ x.total_value # None
                          /\ 8 * value <= 10 * x.total_value[1]
                          /\ 10 * x.total_value[1] <= 12 * value)
                    /\ (sqft > 0 =>
                          /\ x.area_sqft # None
                          /\ 8 * sqft <= 10 * x.area_sqft[1]
                          /\ 10 * x.area_sqft[1] <= 12 * sqft) } }

\* lines 326-340: a fetched row as it is returned
SimilarProperty(property_data, fetched) ==
    LET prop == format_hcad_response(fetched.row)
        value == property_data.market_value
        sqft == property_data.building_sqft
    IN  [similarity |->
            [score |-> calculate_similarity(property_data, prop, fetched.distance_miles),
             distance_miles |-> Round2(fetched.distance_miles),
             value_difference |->
                 IF value > 0 THEN Some(prop.market_value - value) ELSE None,
             size_difference |->
                 IF sqft > 0 THEN Some(prop.building_sqft - sqft) ELSE None]]
        @@ prop

\* x placed behind every element of t whose score is not less than its own
RECURSIVE InsertByScore(_, _)
InsertByScore(x, t) ==
    IF t = <<>> THEN <<x>>
    ELSE IF RatLT(t[1].similarity.score, x.similarity.score) THEN <<x>> \o t
    ELSE <<t[1]>> \o InsertByScore(x, Tail(t))

\* list.sort(key=score, reverse=True): descending, equal scores keep their order
RECURSIVE SortByScore(_)
SortByScore(s) ==
    IF s = <<>> THEN <<>>
    ELSE InsertByScore(s[Len(s)], SortByScore(SubSeq(s, 1, Len(s) - 1)))

\* lines 326-345 without the sort of line 343
ScoreAndSort_unsorted(property_data, fetched) ==
    [i \in 1..Len(fetched) |-> SimilarProperty(property_data, fetched[i])]

\* lines 326-345: score the fetched rows and sort them
ScoreAndSort(property_data, fetched) ==
    SortByScore([i \in 1..Len(fetched) |-> SimilarProperty(property_data, fetched[i])])

\* lines 282-345 without the handler of line 347: the store's exception
\* leaves the function
SimilarSearch_unhandled(db, property_data, lat, lon, radius_miles, limit, dbFails) ==
    IF dbFails \/ limit < 0
    THEN { Outcome("DatabaseError", <<>>, <<"store">>, [rows |-> <<>>]) }
    ELSE { Outcome("none", ScoreAndSort(property_data, Limit(o, limit)), <<"store">>,
                   [rows |-> Limit(o, limit)]) :
           o \in OrderByDistance(SimilarRows(db, property_data, lat, lon, radius_miles)) }

\* lines 282-345: the query and what is made of its rows.  The pool or the
\* query raising (dbFails, or a negative LIMIT) ends in the handler of line
\* 347, which returns [].
SimilarSearch(db, property_data, lat, lon, radius_miles, limit, dbFails) ==
    IF dbFails \/ limit < 0
    THEN { Outcome("none", <<>>, <<"store">>, [rows |-> <<>>]) }
    ELSE { Outcome("none", ScoreAndSort(property_data, Limit(o, limit)), <<"store">>,
                   [rows |-> Limit(o, limit)]) :
           o \in OrderByDistance(SimilarRows(db, property_data, lat, lon, radius_miles)) }

\* find_similar_properties without the check of line 278: the query runs
\* with NULL coordinates and matches no row
find_similar_properties_no_location_check(db, property_data, radius_miles, limit, dbFails) ==
    LET lat == OrElse(property_data.latitude, property_data.geometry.centroid.lat)
        lon == OrElse(property_data.longitude, property_data.geometry.centroid.lon)
    IN  IF ~Truthy(lat) \/ ~Truthy(lon)
        THEN { Outcome("none", <<>>, <<"store">>, [rows |-> <<>>]) }
        ELSE SimilarSearch(db, property_data, lat[1], lon[1], radius_miles, limit, dbFails)

\* find_similar_properties: every outcome the call may have
find_similar_properties(db, property_data, radius_miles, limit, dbFails) ==
    LET lat == OrElse(property_data.latitude, property_data.geometry.centroid.lat)
        lon == OrElse(property_data.longitude, property_data.geometry.centroid.lon)
    IN  IF ~Truthy(lat) \/ ~Truthy(lon)
        THEN { Outcome("none", <<>>, <<>>, [rows |-> <<>>]) }
        ELSE SimilarSearch(db, property_data, lat[1], lon[1], radius_miles, limit, dbFails)

\* search_by_account: the formatted row of that account, or None (also when
\* the store raises)
search_by_account(db, account_number, dbFails) ==
    IF dbFails \/ ~(\E r \in db : r.account_number = account_number) THEN None
    ELSE Some(format_hcad_response(
                 CHOOSE r \in db : r.account_number = account_number))

\* SimilarProperties.get: GET /<account_number>/similar?radius=&limit=
\* dbDown: "never", or the store access that raises ("lookup", "search")
SimilarProperties_get(db, account_number, radius, limit, dbDown) ==
    LET property_data == search_by_account(db, account_number, dbDown = "lookup")
    IN  IF property_data = None
        THEN { Outcome("none",
                       [status |-> 404,
                        body |-> [error |-> "Property not found",
                                  account_number |-> account_number]],
                       <<"store">>, NoLocals) }
        ELSE { Outcome(found.raised,
                       [status |-> 200,
                        body |-> [target_property |->
                                     [account_number |-> account_number,
                                      address |-> property_data[1].property_address,
                                      value |-> property_data[1].market_value,
                                      type |-> property_data[1].property_type],
                                  search_radius_miles |-> radius,
                                  similar_properties_count |-> Len(found.value),
                                  similar_properties |-> found.value]],
                       <<"store">> \o found.events, found.locals) :
               found \in find_similar_properties(db, property_data[1], radius, limit,
                                                 dbDown = "search") }

-----------------------------------------------------------------------------
(* Collaborators' behaviours and callers' inputs *)

\* self.perplexity.query(prompt, temperature=0.1): raises, or answers
LLMOutcomes ==
    { [kind |-> "raise", success |-> FALSE, data |-> <<>>],
      [kind |-> "response", success |-> FALSE, data |-> <<>>],
      [kind |-> "response", success |-> TRUE, data |-> <<>>],
      [kind |-> "response", success |-> TRUE, data |-> <<300000>>],
      [kind |-> "response", success |-> TRUE, data |-> <<2024, 310000>>],
      [kind |-> "response", success |-> TRUE, data |-> <<450000>>],
      [kind |-> "response", success |-> TRUE, data |-> <<10000, 250000>>],
      [kind |-> "response", success |-> TRUE, data |-> <<100000000>>] }

\* the records estimate_property_value is called on
Subjects == { format_hcad_response(r) : r \in SubjectRows }

\* records find_similar_properties is called on that no store row formats
\* to: coordinates only under geometry.centroid; no coordinates and no
\* account; a parcel of 3,000 sqft without a value
OtherReferences ==
    { [account_number |-> 1, property_address |-> "1 MAIN ST",
       market_value |-> 300000, total_value |-> 300000,
       property_type |-> "Real Property", building_sqft |-> 2000,
       latitude |-> None, longitude |-> None,
       geometry |-> [centroid |-> [lat |-> Some(RefLat), lon |-> Some(Meridian)]]],
      [account_number |-> 0, property_address |-> "",
       market_value |-> 0, total_value |-> 0,
       property_type |-> "Real Property", building_sqft |-> 0,
       latitude |-> None, longitude |-> Some(Meridian),
       geometry |-> [centroid |-> [lat |-> None, lon |-> Some(Meridian)]]],
      [account_number |-> 33, property_address |-> "33 MAIN ST",
       market_value |-> 0, total_value |-> 0,
       property_type |-> "Real Property", building_sqft |-> 3000,
       latitude |-> Some(RefLat), longitude |-> Some(Meridian),
       geometry |-> [centroid |-> [lat |-> Some(RefLat), lon |-> Some(Meridian)]]] }

\* radius_miles of a request, in thousandths of a mile: 0, 0.138, 1.0, 3000.0
Radii == {0, 138, 1000, 3000000}

\* limit of a request
Limits == {0 - 1, 0, 1, 20}

\* the records and distances _calculate_similarity is applied to
ScoreProperties == { format_hcad_response(r) : r \in SimCatalog \cup EstCatalog \cup SubjectRows }

Distances == {0, 69, 138, 1000, 2000, 3000000}

\* how often `what` occurs in the sequence s
RECURSIVE Count(_, _)
Count(s, what) ==
    IF s = <<>> THEN 0
    ELSE (IF s[1] = what THEN 1 ELSE 0) + Count(Tail(s), what)

\* store accesses and LLM calls of the call that has just ended
storeQueries == Count(events, "store")

llmCalls == Count(events, "llm")

-----------------------------------------------------------------------------
(* InMemoryCache *)

\* a dict without the keys of S
Without(f, S) ==
    IF DOMAIN f \subseteq S THEN <<>> ELSE [k \in DOMAIN f \ S |-> f[k]]

\* InMemoryCache(): an empty cache that has counted nothing
InMemoryCache == [_cache |-> <<>>, _access_count |-> 0, _hit_count |-> 0]

\* get that leaves the expired entry it finds in the dict
InMemoryCache_get_keeps_expired(self, key, t) ==
    LET counted == [self EXCEPT !._access_count = @ + 1]
    IN  IF key \in DOMAIN self._cache /\ t < self._cache[key].expires_at
        THEN [self |-> [counted EXCEPT !._hit_count = @ + 1],
              returned |-> Some(self._cache[key].value),
              entry |-> Some(self._cache[key])]
        ELSE [self |-> counted, returned |-> None,
              entry |-> IF key \in DOMAIN self._cache
                        THEN Some(self._cache[key]) ELSE None]

\* get(key) at clock reading t: the cache after it, the value returned
\* (None as <<>>) and the local variable entry
InMemoryCache_get(self, key, t) ==
    LET counted == [self EXCEPT !._access_count = @ + 1]
    IN  IF key \in DOMAIN self._cache
        THEN LET entry == self._cache[key]
             IN  IF t < entry.expires_at
                 THEN [self |-> [counted EXCEPT !._hit_count = @ + 1],
                       returned |-> Some(entry.value),
                       entry |-> Some(entry)]
                 ELSE [self |-> [counted EXCEPT !._cache = Without(@, {key})],
                       returned |-> None,
                       entry |-> Some(entry)]
        ELSE [self |-> counted, returned |-> None, entry |-> None]

\* set(key, value, ttl_seconds) at clock reading t
InMemoryCache_set(self, key, value, ttl_seconds, t) ==
    [self EXCEPT !._cache =
        (key :> [value |-> value, expires_at |-> t + ttl_seconds, created_at |-> t])
            @@ @]

\* clear_expired() at clock reading t
InMemoryCache_clear_expired(self, t) ==
    LET expired_keys == { k \in DOMAIN self._cache : t >= self._cache[k].expires_at }
    IN  [self EXCEPT !._cache = Without(@, expired_keys)]

-----------------------------------------------------------------------------
(* The state machine *)

Idle == [op |-> "none"]

InitEst ==
    /\ \E V \in UpTo(EstCatalog, MaxRows), k \in 0..MaxFill :
          store = SubjectRows \cup V \cup Fillers(k)
    /\ db_pool = 0
    /\ perplexity_cache = <<>>
    /\ property_cache = InMemoryCache
    /\ now = 0
    /\ pc = "idle"
    /\ call = Idle
    /\ result = NoResult
    /\ raised = "none"
    /\ events = <<>>
    /\ locals = NoLocals

\* a caller runs estimate_property_value to its end
EstimateValue ==
    /\ pc = "idle"
    /\ \E property_data \in Subjects, dbFails \in BOOLEAN, llm \in LLMOutcomes :
         \E out \in estimate_property_value(store, property_data, dbFails, llm) :
            /\ call' = [op |-> "estimate_property_value", property_data |-> property_data,
                        dbFails |-> dbFails, llm |-> llm]
            /\ result' = out.value
            /\ raised' = out.raised
            /\ events' = out.events
            /\ locals' = out.locals
    /\ pc' = "returned"
    /\ UNCHANGED <<store, db_pool, perplexity_cache, property_cache, now>>

\* a caller runs enhance_property_with_estimation to its end
EnhanceProperty ==
    /\ pc = "idle"
    /\ \E property_data \in Subjects, dbFails \in BOOLEAN, llm \in LLMOutcomes :
         \E out \in enhance_property_with_estimation(store, property_data, dbFails, llm) :
            /\ call' = [op |-> "enhance_property_with_estimation",
                        property_data |-> property_data,
                        dbFails |-> dbFails, llm |-> llm]
            /\ result' = out.value
            /\ raised' = out.raised
            /\ events' = out.events
            /\ locals' = out.locals
    /\ pc' = "returned"
    /\ UNCHANGED <<store, db_pool, perplexity_cache, property_cache, now>>

\* the caller has consumed the result; the next request may begin
Respond ==
    /\ pc = "returned"
    /\ pc' = "idle"
    /\ call' = Idle
    /\ result' = NoResult
    /\ raised' = "none"
    /\ events' = <<>>
    /\ locals' = NoLocals
    /\ UNCHANGED <<store, db_pool, perplexity_cache, property_cache, now>>

InitSim ==
    /\ store \in UpTo(SimCatalog, MaxRows)
    /\ db_pool = 0
    /\ perplexity_cache = <<>>
    /\ property_cache = InMemoryCache
    /\ now = 0
    /\ pc = "idle"
    /\ call = Idle
    /\ result = NoResult
    /\ raised = "none"
    /\ events = <<>>
    /\ locals = NoLocals

\* a caller runs find_similar_properties to its end
FindSimilar ==
    /\ pc = "idle"
    /\ \E property_data \in { format_hcad_response(r) : r \in store } \cup OtherReferences,
          radius_miles \in Radii, limit \in Limits, dbFails \in BOOLEAN :
         \E out \in find_similar_properties(store, property_data, radius_miles, limit, dbFails) :
            /\ call' = [op |-> "find_similar_properties", property_data |-> property_data,
                        radius_miles |-> radius_miles, limit |-> limit, dbFails |-> dbFails]
            /\ result' = out.value
            /\ raised' = out.raised
            /\ events' = out.events
            /\ locals' = out.locals
    /\ pc' = "returned"
    /\ UNCHANGED <<store, db_pool, perplexity_cache, property_cache, now>>

\* a client requests GET /<account_number>/similar
SimilarPropertiesGet ==
    /\ pc = "idle"
    /\ \E account_number \in { r.account_number : r \in store } \cup {99},
          radius \in Radii, limit \in Limits, dbDown \in {"never", "lookup", "search"} :
         \E out \in SimilarProperties_get(store, account_number, radius, limit, dbDown) :
            /\ call' = [op |-> "SimilarProperties.get", account_number |-> account_number,
                        radius_miles |-> radius, limit |-> limit, dbDown |-> dbDown]
            /\ result' = out.value
            /\ raised' = out.raised
            /\ events' = out.events
            /\ locals' = out.locals
    /\ pc' = "returned"
    /\ UNCHANGED <<store, db_pool, perplexity_cache, property_cache, now>>

\* _calculate_similarity applied to two records and a distance
CalculateSimilarity ==
    /\ pc = "idle"
    /\ \E prop1 \in ScoreProperties, prop2 \in ScoreProperties, distance \in Distances :
          /\ call' = [op |-> "_calculate_similarity", prop1 |-> prop1, prop2 |-> prop2,
                      distance |-> distance]
          /\ result' = calculate_similarity(prop1, prop2, distance)
    /\ raised' = "none"
    /\ events' = <<>>
    /\ locals' = NoLocals
    /\ pc' = "returned"
    /\ UNCHANGED <<store, db_pool, perplexity_cache, property_cache, now>>

NextEst == EstimateValue \/ EnhanceProperty \/ Respond

SpecEst == InitEst /\ [][NextEst]_vars

NextSim == FindSimilar \/ SimilarPropertiesGet \/ Respond

SpecSim == InitSim /\ [][NextSim]_vars

InitScore ==
    /\ store = SimCatalog
    /\ db_pool = 0
    /\ perplexity_cache = <<>>
    /\ property_cache = InMemoryCache
    /\ now = 0
    /\ pc = "idle"
    /\ call = Idle
    /\ result = NoResult
    /\ raised = "none"
    /\ events = <<>>
    /\ locals = NoLocals

NextScore == CalculateSimilarity \/ Respond

SpecScore == InitScore /\ [][NextScore]_vars

-----------------------------------------------------------------------------
(* Properties of estimate_property_value *)

\* a call of estimate_property_value has just ended
EstCall == pc = "returned" /\ call.op = "estimate_property_value"

\* ... on a record whose market value is unknown
EstCallUnknown == EstCall /\ call.property_data.market_value = 0

SubjectLat == OrElse(call.property_data.latitude,
                     call.property_data.geometry.centroid.lat)

SubjectLon == OrElse(call.property_data.longitude,
                     call.property_data.geometry.centroid.lon)

HasCoordinates == Truthy(SubjectLat) /\ Truthy(SubjectLon)

\* the store holds a comparable in range of the subject
ComparablesInRange ==
    /\ HasCoordinates
    /\ ComparableRows(store, SubjectLat[1], SubjectLon[1],
                      call.property_data.property_type) # {}

\* the LLM call fails: it raises, or answers success = false
LLMFails == call.llm.kind = "raise" \/ ~call.llm.success

\* C1: for a record with market_value > 0 the estimator returns estimated =
\* false, value = market_value, confidence = 1.0, method = actual, and uses
\* neither the store nor the LLM.
C1_ActualShortCircuit ==
    (EstCall /\ call.property_data.market_value > 0) =>
        /\ raised = "none"
        /\ result.estimated = FALSE
        /\ result.value = Rat(call.property_data.market_value, 1)
        /\ result.confidence = Rat(1, 1)
        /\ result.method = "actual"
        /\ storeQueries = 0
        /\ llmCalls = 0

\* C1 witness: a valued record is estimated while the store holds comparables
\* around it and the LLM would have answered with a usable number.
C1_Witness ==
    /\ EstCall
    /\ call.property_data.market_value > 0
    /\ HasCoordinates
    /\ ~call.dbFails
    /\ call.llm.success /\ FirstReasonable(call.llm.data) # None
    /\ Fillers(1) \subseteq store
    /\ result.method = "actual"

\* C2: market_value = 0, Path A yields nothing (store error, or no
\* comparable in range) and the LLM call fails: the result is exactly
\* estimated = true, value = 0, confidence = 0, method = no_estimate, and
\* nothing is raised.
C2_NoEstimate ==
    (EstCallUnknown /\ (call.dbFails \/ ~ComparablesInRange) /\ LLMFails) =>
        /\ raised = "none"
        /\ result.estimated = TRUE
        /\ result.value = Rat(0, 1)
        /\ result.confidence = Rat(0, 1)
        /\ result.method = "no_estimate"
        /\ result.comparables_used = 0

\* C2 witness: comparables are in range but the store raises, and the LLM is
\* called and raises.
C2_Witness ==
    /\ EstCallUnknown
    /\ ComparablesInRange
    /\ call.dbFails
    /\ call.llm.kind = "raise"
    /\ events = <<"store", "llm">>
    /\ result.method = "no_estimate"

\* |a - b| / max(a, b) < 0.2, the agreement test of line 247
Within20(a, b) == RatLT(RatDiv(RatAbs(RatSub(a, b)), RatMax(a, b)), Rat(2, 10))

\* both paths produced an estimate
BothPaths ==
    /\ EstCallUnknown
    /\ raised = "none"
    /\ locals.neighbor_estimate # None
    /\ locals.ai_estimate # None

\* C3: when both paths produce estimates within 20% of each other, method =
\* combined_agreement and confidence >= max(neighbor confidence, AI
\* confidence).
C3_AgreementConfidence ==
    (BothPaths /\ Within20(locals.neighbor_estimate[1], locals.ai_estimate[1])) =>
        /\ result.method = "combined_agreement"
        /\ RatLE(RatMax(locals.neighbor_confidence, locals.ai_confidence),
                 result.confidence)

\* C10: a failing collaborator does not abort the estimate.  (a) The store
\* raises during the comparable lookup and the LLM answers with a usable
\* number: method = ai_only and Path A contributed nothing.  (b) The LLM call
\* raises or answers success = false and Path A produced a value: method =
\* neighbor_only and Path B contributed nothing.  In both cases nothing is
\* raised to the caller.
C10_CollaboratorFailure ==
    /\ (/\ EstCallUnknown /\ HasCoordinates /\ call.dbFails
        /\ call.property_data.property_address # ""
        /\ call.llm.kind = "response" /\ call.llm.success
        /\ FirstReasonable(call.llm.data) # None)
       => /\ raised = "none"
          /\ result.method = "ai_only"
          /\ result.estimation_details.neighbor_based = None
          /\ result.comparables_used = 0
    /\ (EstCallUnknown /\ LLMFails /\ locals.neighbor_estimate # None)
       => /\ raised = "none"
          /\ result.method = "neighbor_only"
          /\ result.estimation_details.ai_based = None
          /\ result.value = locals.neighbor_estimate[1]

\* C10 witness: the LLM is called and raises, the comparables gave a value.
C10_Witness ==
    /\ EstCallUnknown
    /\ call.llm.kind = "raise"
    /\ events = <<"store", "llm">>
    /\ locals.neighbor_estimate # None
    /\ result.method = "neighbor_only"

\* the store raised, the LLM answered: ai_only
C10_WitnessStoreError ==
    /\ EstCallUnknown
    /\ call.dbFails
    /\ ComparablesInRange
    /\ events = <<"store", "llm">>
    /\ result.method = "ai_only"

-----------------------------------------------------------------------------
(* Properties of find_similar_properties *)

\* a call of find_similar_properties has just ended
SimCall == pc = "returned" /\ call.op = "find_similar_properties"

\* a request GET /<account_number>/similar has just been answered
RouteCall == pc = "returned" /\ call.op = "SimilarProperties.get"

ReferenceLat == OrElse(call.property_data.latitude,
                       call.property_data.geometry.centroid.lat)

ReferenceLon == OrElse(call.property_data.longitude,
                       call.property_data.geometry.centroid.lon)

\* the store holds a parcel of the reference's type, with coordinates, that
\* is not the reference
StoreHasNeighbour ==
    \E r \in store :
        /\ r.centroid_lat # None /\ r.centroid_lon # None
        /\ r.property_type = call.property_data.property_type
        /\ r.account_number # call.property_data.account_number

\* C4: a reference without latitude or without longitude (top-level or
\* centroid) gets the empty list, nothing is raised and the store is not
\* queried.
C4_NoCoordinatesEmpty ==
    (SimCall /\ (ReferenceLat = None \/ ReferenceLon = None)) =>
        /\ raised = "none"
        /\ result = <<>>
        /\ storeQueries = 0

\* C4 witness: such a reference is searched for while the store is up and
\* holds parcels of its type, with a positive radius and limit.
C4_Witness ==
    /\ SimCall
    /\ ReferenceLat = None
    /\ StoreHasNeighbour
    /\ ~call.dbFails
    /\ call.radius_miles > 0 /\ call.limit > 0
    /\ result = <<>>

\* C5: the returned list is in descending order of similarity score.
C5_SortedByScore ==
    SimCall =>
        \A i \in 1..(Len(result) - 1) :
            RatLE(result[i + 1].similarity.score, result[i].similarity.score)

\* C5 witness: two rows come back from the store nearest first and are
\* returned in the other order, the farther one scoring higher.
C5_Witness ==
    /\ SimCall
    /\ Len(result) = 2
    /\ RatLT(result[2].similarity.score, result[1].similarity.score)
    /\ result[1].account_number = locals.rows[2].row.account_number
    /\ locals.rows[1].distance_miles < locals.rows[2].distance_miles

\* C6: every returned candidate has the reference's property type, a
\* reported distance within the radius, coordinates, and another account
\* number than the reference.
C6_ReturnedCandidates ==
    SimCall =>
        \A i \in 1..Len(result) :
            /\ result[i].property_type = call.property_data.property_type
            /\ result[i].similarity.distance_miles <= call.radius_miles
            /\ result[i].latitude # None /\ result[i].longitude # None
            /\ result[i].account_number # call.property_data.account_number

\* the score find_similar_properties gives a row the query's WHERE clause keeps
ScoreOf(fetched) ==
    calculate_similarity(call.property_data, format_hcad_response(fetched.row),
                         fetched.distance_miles)

\* C7: the result has at most `limit` entries and no candidate that passes
\* the distance, type, value and size filters but is not returned scores
\* higher than a returned one.
C7_TopByScore ==
    (SimCall /\ ReferenceLat # None /\ ReferenceLon # None /\ ~call.dbFails
       /\ call.limit >= 0) =>
        /\ Len(result) <= call.limit
        /\ \A c \in SimilarRows(store, call.property_data, ReferenceLat[1],
                                ReferenceLon[1], call.radius_miles) :
              (\A i \in 1..Len(result) : result[i].account_number # c.row.account_number)
              => \A i \in 1..Len(result) :
                     RatLE(ScoreOf(c), result[i].similarity.score)

\* C8: the similarity score of any two records at any non-negative distance
\* is within [0, 1].
C8_ScoreInUnitInterval ==
    (pc = "returned" /\ call.op = "_calculate_similarity") =>
        RatLE(Rat(0, 1), result) /\ RatLE(result, Rat(1, 1))

\* C8 witness: two records that differ in value and in size, farther apart
\* than the distance at which the distance penalty is capped.
C8_Witness ==
    /\ pc = "returned" /\ call.op = "_calculate_similarity"
    /\ call.distance > 1000
    /\ call.prop1.market_value > 0 /\ call.prop2.market_value > call.prop1.market_value
    /\ call.prop1.building_sqft > 0 /\ call.prop2.building_sqft > call.prop1.building_sqft
    /\ RatLT(Rat(0, 1), result) /\ RatLT(result, Rat(5, 10))

\* C9: a call with a non-positive radius or a non-positive limit is rejected
\* with a validation error before the store is queried.
C9_InvalidParametersRejected ==
    ((SimCall \/ RouteCall) /\ (call.radius_miles <= 0 \/ call.limit <= 0)) =>
        /\ raised = "ValidationError" \/ (RouteCall /\ result.status = 400)
        /\ storeQueries = 0

\* the rows the query of the call that has just ended selects when it succeeds
CallSimilarRows ==
    SimilarRows(store, call.property_data, ReferenceLat[1], ReferenceLon[1],
                call.radius_miles)

\* C11: when the store raises during find_similar_properties (the pool gives
\* no connection, or the query fails), the call returns the empty list and
\* raises nothing; no part of a result list is returned.
C11_StoreErrorEmpty ==
    (SimCall /\ Truthy(ReferenceLat) /\ Truthy(ReferenceLon) /\ call.dbFails) =>
        /\ raised = "none"
        /\ result = <<>>

\* C11 witness: the store is asked and raises although it holds rows the
\* query would have returned.
C11_Witness ==
    /\ SimCall
    /\ Truthy(ReferenceLat) /\ Truthy(ReferenceLon)
    /\ call.dbFails
    /\ call.limit > 0
    /\ CallSimilarRows # {}
    /\ events = <<"store">>
    /\ result = <<>>

-----------------------------------------------------------------------------
(* find_similar_properties called twice *)

\* a caller repeats the find_similar_properties call that has just ended, with
\* the same arguments, the store being as it was
FindSimilarAgain ==
    /\ pc = "returned"
    /\ call.op = "find_similar_properties"
    /\ \E out \in find_similar_properties(store, call.property_data, call.radius_miles,
                                           call.limit, call.dbFails) :
          /\ call' = [op |-> "find_similar_properties again",
                      property_data |-> call.property_data,
                      radius_miles |-> call.radius_miles, limit |-> call.limit,
                      dbFails |-> call.dbFails, previous |-> result]
          /\ result' = out.value
          /\ raised' = out.raised
          /\ events' = out.events
          /\ locals' = out.locals
    /\ pc' = "returned"
    /\ UNCHANGED <<store, db_pool, perplexity_cache, property_cache, now>>

NextRepeat == FindSimilar \/ FindSimilarAgain \/ Respond

SpecRepeat == InitSim /\ [][NextRepeat]_vars

\* C12: a second call of find_similar_properties with the same reference,
\* radius and limit against the unchanged store returns the same list in the
\* same order as the first.
C12_RepeatedCallSameResult ==
    (pc = "returned" /\ call.op = "find_similar_properties again") =>
        result = call.previous

-----------------------------------------------------------------------------
(* Module-global state: db_pool and perplexity_cache *)

\* ThreadedConnectionPool(minconn=2, maxconn=20, ...)
maxconn == 20

\* json.dumps accepts strings and numbers; it raises TypeError on an
\* instance of a class it does not know
JSONSerializable(x) == x.type \in {"str", "float"}

\* cache_key(*args, **kwargs): the md5 of the JSON text of the arguments,
\* held as the arguments themselves; json.dumps raising leaves the function
cache_key(args, kwargs) ==
    IF \E i \in 1..Len(args) : ~JSONSerializable(args[i])
    THEN [raised |-> "TypeError", key |-> <<>>]
    ELSE [raised |-> "none", key |-> <<args, kwargs>>]

\* the PerplexityClient the estimator holds in self.perplexity
PerplexityClient == [type |-> "PerplexityClient"]

\* format(x, ",.0f"): x to the nearest whole number, an exact half going to
\* the even one
RoundInt(x) ==
    LET q == x.n \div x.d
        r == x.n % x.d
    IN  IF 2 * r < x.d THEN q
        ELSE IF 2 * r > x.d THEN q + 1
        ELSE IF q % 2 = 0 THEN q ELSE q + 1

\* the prompt _get_ai_estimate builds (lines 165-189): the text is
\* determined by the address, the type, the size if positive, and the mean
\* value of the first five comparables if there are any
Prompt(address, property_data, comparables) ==
    LET top5 == Limit(comparables, 5)
    IN  [type |-> "str",
         address |-> address,
         property_type |-> property_data.property_type,
         size |-> IF property_data.building_sqft > 0
                  THEN Some(property_data.building_sqft) ELSE None,
         nearby |-> IF comparables # <<>>
                    THEN Some(RoundInt(Mean([i \in 1..Len(top5) |->
                                                Rat(top5[i].total_value, 1)])))
                    ELSE None]

\* PerplexityClient.query as decorated by cached_perplexity: wrapper(self,
\* prompt, temperature=...).  api is what the undecorated query would do.
\* Gives what the call does and the cache after it.
PerplexityClient_query(cache, self, prompt, temperature, api) ==
    LET k == cache_key(<<self, prompt>>,
                       <<[type |-> "str", name |-> "temperature"], temperature>>)
    IN  IF k.raised # "none"
        THEN [outcome |-> [kind |-> "raise", success |-> FALSE, data |-> <<>>],
              cache |-> cache]
        ELSE IF k.key \in DOMAIN cache
        THEN [outcome |-> cache[k.key], cache |-> cache]
        ELSE IF api.kind = "response" /\ api.success
        THEN [outcome |-> api, cache |-> (k.key :> api) @@ cache]
        ELSE [outcome |-> api, cache |-> cache]

\* estimate_property_value with the PerplexityClient in self.perplexity:
\* every outcome the call may have, with perplexity_cache after it
estimate_property_value_with_client(db, property_data, cache, api) ==
    IF property_data.market_value > 0
    THEN { [out |-> o, cache |-> cache] :
           o \in estimate_property_value(db, property_data, FALSE, api) }
    ELSE LET lat == OrElse(property_data.latitude, property_data.geometry.centroid.lat)
             lon == OrElse(property_data.longitude, property_data.geometry.centroid.lon)
         IN  { LET q == PerplexityClient_query(
                            cache, PerplexityClient,
                            Prompt(property_data.property_address, property_data,
                                   lookup.rows),
                            [type |-> "float", tenths |-> 1], api)
                   o == EstimateWith(property_data, lookup,
                                     ComparableLookups(lat, lon), q.outcome)
               IN  [out |-> o,
                    cache |-> IF Count(o.events, "llm") > 0 THEN q.cache ELSE cache] :
               lookup \in find_comparable_properties(
                              db, lat, lon, property_data.property_type,
                              ComparablesLimit, FALSE) }

\* the store of the concurrent runs
ConcStore ==
    SubjectRows \cup { r \in SimCatalog : r.account_number <= 3 } \cup Fillers(1)

InitConc ==
    /\ store = ConcStore
    /\ db_pool = 0
    /\ perplexity_cache = <<>>
    /\ property_cache = InMemoryCache
    /\ now = 0
    /\ pc = "idle"
    /\ call = Idle
    /\ result = NoResult
    /\ raised = "none"
    /\ events = <<>>
    /\ locals = NoLocals

\* another invocation of find_similar_properties, in another thread, enters
\* `with db_pool.get_cursor()`: the pool hands it a connection
GetConnection ==
    /\ db_pool < maxconn
    /\ db_pool' = db_pool + 1
    /\ UNCHANGED <<store, perplexity_cache, property_cache, now, pc, call, result, raised, events, locals>>

\* another invocation leaves `with db_pool.get_cursor()`: putconn
PutConnection ==
    /\ db_pool > 0
    /\ db_pool' = db_pool - 1
    /\ UNCHANGED <<store, perplexity_cache, property_cache, now, pc, call, result, raised, events, locals>>

\* find_similar_properties runs while db_pool connections are checked out by
\* other invocations; with all maxconn of them out, getconn raises PoolError.
\* The connection it takes is put back before it returns.
FindSimilarPooled ==
    /\ pc = "idle"
    /\ \E property_data \in { format_hcad_response(r) : r \in store } \cup OtherReferences,
          radius_miles \in Radii, limit \in Limits :
         \E out \in find_similar_properties(store, property_data, radius_miles, limit,
                                            db_pool = maxconn) :
            /\ call' = [op |-> "find_similar_properties", property_data |-> property_data,
                        radius_miles |-> radius_miles, limit |-> limit,
                        dbFails |-> (db_pool = maxconn)]
            /\ result' = out.value
            /\ raised' = out.raised
            /\ events' = out.events
            /\ locals' = out.locals
    /\ pc' = "returned"
    /\ UNCHANGED <<store, db_pool, perplexity_cache, property_cache, now>>

\* estimate_property_value runs with the PerplexityClient and the cache as
\* earlier invocations left it; its store access is a connection of its own
EstimateValueWithClient ==
    /\ pc = "idle"
    /\ \E property_data \in Subjects, api \in LLMOutcomes :
         \E run \in estimate_property_value_with_client(store, property_data,
                                                        perplexity_cache, api) :
            /\ call' = [op |-> "estimate_property_value", property_data |-> property_data,
                        dbFails |-> FALSE, llm |-> api]
            /\ result' = run.out.value
            /\ raised' = run.out.raised
            /\ events' = run.out.events
            /\ locals' = run.out.locals
            /\ perplexity_cache' = run.cache
    /\ pc' = "returned"
    /\ UNCHANGED <<store, db_pool, property_cache, now>>

NextConc ==
    \/ GetConnection
    \/ PutConnection
    \/ FindSimilarPooled
    \/ EstimateValueWithClient
    \/ Respond

SpecConc == InitConc /\ [][NextConc]_vars

\* C13: with the store unchanged, an invocation returns what it returns when
\* it runs alone (no connection checked out by another invocation, nothing
\* cached by an earlier one).
C13_NoInterference ==
    /\ (pc = "returned" /\ call.op = "find_similar_properties") =>
          \E o \in find_similar_properties(store, call.property_data,
                                           call.radius_miles, call.limit, FALSE) :
              result = o.value /\ raised = o.raised
    /\ (pc = "returned" /\ call.op = "estimate_property_value") =>
          \E a \in estimate_property_value_with_client(store, call.property_data,
                                                       <<>>, call.llm) :
              result = a.out.value /\ raised = a.out.raised

-----------------------------------------------------------------------------
(* Scenario: one candidate 0.3 miles away, one 5.0 miles away *)

\* the reference of the scenario (value 300,000, 2,000 sqft) is searched
\* around with radius 1.0, the store answering
ScenarioCall ==
    /\ SimCall
    /\ call.property_data.account_number = 1
    /\ call.property_data.market_value = 300000
    /\ call.property_data.building_sqft = 2000
    /\ Truthy(ReferenceLat) /\ Truthy(ReferenceLon)
    /\ call.radius_miles = 1000
    /\ call.limit = 20
    /\ ~call.dbFails

\* the entries of the result for account a
Returned(a) == { i \in 1..Len(result) : result[i].account_number = a }

\* the penalties of the candidate 0.3 miles away (310,000, 2,100 sqft):
\* min(0.3 / 2, 0.5); 10,000 / 310,000 * 0.3; 100 / 2,100 * 0.2
ScenarioDistancePenalty == Rat(15, 100)

ScenarioValuePenalty == RatMul(Rat(10000, 310000), Rat(3, 10))

ScenarioSizePenalty == RatMul(Rat(100, 2100), Rat(2, 10))

\* |a - b| <= tol
RatNear(a, b, tol) == RatLE(RatAbs(RatSub(a, b)), tol)

\* C14 (as the code computes it): the candidate 5.0 miles away is not
\* returned; the candidate 0.3 miles away is returned with score 1 - 0.15 -
\* valuePenalty - sizePenalty, where valuePenalty is about 0.01 (0.0097) and
\* sizePenalty is about 0.0095, which is about 0.831.
C14_ScenarioScore ==
    ScenarioCall =>
        /\ Returned(32) = {}
        /\ \A r \in store : r.account_number = 31 =>
              /\ Returned(31) # {}
              /\ \A i \in Returned(31) :
                    /\ result[i].similarity.score =
                          RatSub(RatSub(RatSub(Rat(1, 1), ScenarioDistancePenalty),
                                        ScenarioValuePenalty),
                                 ScenarioSizePenalty)
                    /\ RatNear(result[i].similarity.score, Rat(831, 1000), Rat(5, 10000))
        /\ RatNear(ScenarioValuePenalty, Rat(1, 100), Rat(5, 1000))
        /\ RatNear(ScenarioSizePenalty, Rat(95, 10000), Rat(5, 10000))

\* C14 witness: the store holds both candidates of the scenario and the one
\* 0.3 miles away is returned.
C14_Witness ==
    /\ ScenarioCall
    /\ \E r \in store : r.account_number = 31
    /\ \E r \in store : r.account_number = 32
    /\ Returned(31) # {}

\* C14 as stated: the candidate 5.0 miles away is not returned and the one
\* 0.3 miles away is returned with a similarity of about 0.807 (sizePenalty
\* about 0.033).
C14_ScenarioScoreAsStated ==
    ScenarioCall =>
        /\ Returned(32) = {}
        /\ \A r \in store : r.account_number = 31 =>
              /\ Returned(31) # {}
              /\ \A i \in Returned(31) :
                    RatNear(result[i].similarity.score, Rat(807, 1000), Rat(5, 1000))

-----------------------------------------------------------------------------
(* Properties of estimate_property_value, continued *)

\* the call returned and exactly one path produced an estimate
OnlyNeighbor ==
    /\ EstCallUnknown /\ raised = "none"
    /\ locals.neighbor_estimate # None /\ locals.ai_estimate = None

OnlyAI ==
    /\ EstCallUnknown /\ raised = "none"
    /\ locals.neighbor_estimate = None /\ locals.ai_estimate # None

\* C15: when exactly one path produced a value, the result carries that
\* value and that path's confidence unchanged, with method neighbor_only for
\* the comparables path and ai_only for the LLM path.
C15_SinglePath ==
    /\ OnlyNeighbor =>
          /\ result.value = locals.neighbor_estimate[1]
          /\ result.confidence = locals.neighbor_confidence
          /\ result.method = "neighbor_only"
    /\ OnlyAI =>
          /\ result.value = locals.ai_estimate[1]
          /\ result.confidence = locals.ai_confidence
          /\ result.method = "ai_only"

\* C15 witness: the store answers but holds no comparable in range, and the
\* LLM's answer holds a usable number behind an unusable one.
C15_Witness ==
    /\ OnlyAI
    /\ ~call.dbFails
    /\ HasCoordinates
    /\ call.llm.data = <<2024, 310000>>
    /\ result.value = Rat(310000, 1)
    /\ result.confidence = Rat(7, 10)

Methods ==
    {"actual", "neighbor_only", "ai_only", "combined_agreement",
     "combined_weighted", "no_estimate"}

\* C16: every result of estimate_property_value has a confidence within
\* [0, 1] and one of the six methods, and estimated = false exactly when
\* method = actual.
C16_ResultInvariants ==
    (EstCall /\ raised = "none") =>
        /\ RatLE(Rat(0, 1), result.confidence)
        /\ RatLE(result.confidence, Rat(1, 1))
        /\ result.method \in Methods
        /\ (result.estimated = FALSE) <=> (result.method = "actual")

\* C16 witness: ten comparables and an LLM answer that agrees with them give
\* the highest confidence an estimate can have, 0.85.
C16_Witness ==
    /\ BothPaths
    /\ Len(locals.comparables) = ComparablesLimit
    /\ result.estimated = TRUE
    /\ result.method = "combined_agreement"
    /\ result.confidence = Rat(85, 100)

\* (vA*cA + vB*cB) / (cA + cB)
WeightedValue(vA, cA, vB, cB) ==
    RatDiv(RatAdd(RatMul(vA, cA), RatMul(vB, cB)), RatAdd(cA, cB))

\* min(0.9, (cA + cB) / 2)
MeanConfidence(cA, cB) == RatMin(Rat(9, 10), RatDiv(RatAdd(cA, cB), Rat(2, 1)))

\* |a - b| / max(a, b) <= 0.2
WithinOrAt20(a, b) ==
    RatLE(RatDiv(RatAbs(RatSub(a, b)), RatMax(a, b)), Rat(2, 10))

-----------------------------------------------------------------------------
(* The value and size filters of find_similar_properties *)

\* the query ran and its LIMIT did not cut the rows short
FullSearch ==
    /\ SimCall
    /\ Truthy(ReferenceLat) /\ Truthy(ReferenceLon)
    /\ ~call.dbFails
    /\ call.limit > Cardinality(store)

\* the rows of the store that pass the primary filters: coordinates, the
\* reference's type, another account, within the radius
InRadiusSameType ==
    { r \in store :
        /\ r.centroid_lat # None /\ r.centroid_lon # None
        /\ r.property_type = call.property_data.property_type
        /\ r.account_number # call.property_data.account_number
        /\ distance_miles(ReferenceLat[1], ReferenceLon[1],
                          r.centroid_lat[1], r.centroid_lon[1]) <= call.radius_miles }

ReturnedAccounts == { result[i].account_number : i \in 1..Len(result) }

\* 0.8 * x <= y <= 1.2 * x
Within20Percent(x, y) == 8 * x <= 10 * y /\ 10 * y <= 12 * x

\* C18: with a reference value v > 0 every returned candidate's market
\* value is within [0.8 v, 1.2 v]; with a reference size s > 0 every returned
\* candidate's building_sqft is within [0.8 s, 1.2 s].
C18_FiltersDrop ==
    SimCall =>
        \A i \in 1..Len(result) :
            /\ call.property_data.market_value > 0 =>
                  Within20Percent(call.property_data.market_value,
                                  result[i].market_value)
            /\ call.property_data.building_sqft > 0 =>
                  Within20Percent(call.property_data.building_sqft,
                                  result[i].building_sqft)

\* C18 witness: a candidate in the radius at five times the reference's
\* value is left out, one at exactly 1.2 times its value and size is returned.
C18_Witness ==
    /\ FullSearch
    /\ call.property_data.market_value = 300000
    /\ call.property_data.building_sqft = 2000
    /\ \E r \in InRadiusSameType : r.account_number = 8
    /\ 8 \notin ReturnedAccounts
    /\ \E i \in 1..Len(result) :
          result[i].market_value = 360000 /\ result[i].building_sqft = 2400

\* C19 (as the code does it): for a reference with market_value = 0 no
\* candidate is dropped for its value; the size filter does not depend on
\* the reference's value: it is applied exactly when the reference's
\* building_sqft > 0.  So the candidates returned are the in-radius same-type
\* rows, less those with a size outside [0.8 s, 1.2 s] if s > 0.
C19_ValueFilterOnlyWithValue ==
    (FullSearch /\ call.property_data.market_value = 0) =>
        ReturnedAccounts =
            { r.account_number :
                r \in { x \in InRadiusSameType :
                          call.property_data.building_sqft > 0 =>
                              /\ x.area_sqft # None
                              /\ Within20Percent(call.property_data.building_sqft,
                                                 x.area_sqft[1]) } }

\* C19 witness: a reference without value and of 3,000 sqft; a candidate of
\* 2,400 sqft is returned whatever its value, one of 2,000 sqft is not.
C19_Witness ==
    /\ FullSearch
    /\ call.property_data.market_value = 0
    /\ call.property_data.building_sqft = 3000
    /\ \E r \in InRadiusSameType : r.area_sqft = Some(2000)
    /\ \E i \in 1..Len(result) : result[i].building_sqft = 2400
    /\ \A i \in 1..Len(result) : result[i].building_sqft # 2000

\* C19 as stated: for a reference with market_value = 0 every in-radius
\* same-type candidate is returned, none being dropped for its value or its
\* size.
C19_NoSecondaryFilterWithoutValue ==
    (FullSearch /\ call.property_data.market_value = 0) =>
        ReturnedAccounts = { r.account_number : r \in InRadiusSameType }

-----------------------------------------------------------------------------
(* The confidence of the comparables path *)

\* the comparables of the call with a value > 0
ValuedComparables == SelectSeq(locals.comparables, LAMBDA c : c.total_value > 0)

\* C20 (as the code computes it): with n > 0 valued comparables the
\* comparables path's confidence is min(0.8, n / 10), and a neighbor_only
\* result reports it; its ceiling, 0.8, is above the 0.7 of an ai_only result.
C20_NeighborConfidence ==
    (EstCallUnknown /\ raised = "none" /\ locals.neighbor_estimate # None) =>
        /\ locals.neighbor_confidence =
              RatMin(Rat(8, 10), Rat(Len(ValuedComparables), 10))
        /\ result.method = "neighbor_only" =>
              /\ result.confidence = locals.neighbor_confidence
              /\ RatLE(result.confidence, Rat(8, 10))

\* C20 witness: ten comparables, no LLM estimate: neighbor_only with
\* confidence 0.8, not 1.0.
C20_Witness ==
    /\ OnlyNeighbor
    /\ Len(ValuedComparables) = ComparablesLimit
    /\ result.method = "neighbor_only"
    /\ result.confidence = Rat(8, 10)

\* C20 as stated: the confidence is min(0.8, n / 10) and a neighbor_only
\* result never reports more than the 0.7 of an ai_only result.
C20_NeighborBelowAI ==
    (EstCallUnknown /\ raised = "none" /\ locals.neighbor_estimate # None) =>
        /\ locals.neighbor_confidence =
              RatMin(Rat(8, 10), Rat(Len(ValuedComparables), 10))
        /\ result.method = "neighbor_only" =>
              RatLE(result.confidence, Rat(7, 10))

-----------------------------------------------------------------------------
(* The comparables path's estimate *)

\* the comparables of the call whose area_sqft is known and positive
SizedComparables ==
    SelectSeq(locals.comparables,
              LAMBDA c : c.total_value > 0 /\ c.area_sqft # None /\ c.area_sqft[1] > 0)

\* the median of the comparables' values
ComparablesMedian ==
    Median([i \in 1..Len(ValuedComparables) |-> ValuedComparables[i].total_value])

\* mean(value / sqft) over the comparables with known sqft, times the
\* subject's sqft
PricePerSqftEstimate ==
    RatMul(Mean([i \in 1..Len(SizedComparables) |->
                    Rat(SizedComparables[i].total_value,
                        SizedComparables[i].area_sqft[1])]),
           Rat(call.property_data.building_sqft, 1))

\* C21: the comparables path's estimate is the median of the comparables'
\* values, blended (averaged) with the price-per-sqft estimate exactly when
\* the subject has building_sqft > 0 and at least one comparable has
\* area_sqft > 0, whichever comparable is nearest.
C21_BlendWhenAnySized ==
    (EstCallUnknown /\ raised = "none" /\ locals.neighbor_estimate # None) =>
        locals.neighbor_estimate[1] =
            IF call.property_data.building_sqft > 0 /\ SizedComparables # <<>>
            THEN RatDiv(RatAdd(ComparablesMedian, PricePerSqftEstimate), Rat(2, 1))
            ELSE ComparablesMedian

-----------------------------------------------------------------------------
(* The LLM path's estimate *)

\* the LLM was asked and answered with success = true
LLMAnswered ==
    /\ EstCallUnknown /\ raised = "none"
    /\ call.property_data.property_address # ""
    /\ call.llm.kind = "response" /\ call.llm.success

\* the positions of the numbers of the answer strictly between 10,000 and
\* 100,000,000
StrictlyInRange ==
    { i \in 1..Len(call.llm.data) :
        10000 < call.llm.data[i] /\ call.llm.data[i] < 100000000 }

\* ... and of those from 10,000 to 100,000,000, both included
InRange ==
    { i \in 1..Len(call.llm.data) :
        10000 <= call.llm.data[i] /\ call.llm.data[i] <= 100000000 }

\* the least element of a non-empty set of positions
First(S) == CHOOSE i \in S : \A j \in S : i <= j

\* C22 (as the code computes it): from a successful answer the LLM path
\* takes the first number, in order of appearance, that is greater than
\* 10,000 and less than 100,000,000, with confidence 0.7, skipping earlier
\* numbers outside that range (10,000 and 100,000,000 themselves included);
\* with no such number it yields no result, not a zero.
C22_FirstNumberInRange ==
    LLMAnswered =>
        IF StrictlyInRange = {}
        THEN locals.ai_estimate = None
        ELSE /\ locals.ai_estimate = Some(Rat(call.llm.data[First(StrictlyInRange)], 1))
             /\ locals.ai_confidence = Rat(7, 10)

\* C22 witness: the answer names a year before the value; the value is taken.
C22_Witness ==
    /\ LLMAnswered
    /\ call.llm.data = <<2024, 310000>>
    /\ locals.ai_estimate = Some(Rat(310000, 1))
    /\ locals.ai_confidence = Rat(7, 10)

\* C22 as stated, the range being 10,000 to 100,000,000.
C22_FirstNumberInClosedRange ==
    LLMAnswered =>
        IF InRange = {}
        THEN locals.ai_estimate = None
        ELSE /\ locals.ai_estimate = Some(Rat(call.llm.data[First(InRange)], 1))
             /\ locals.ai_confidence = Rat(7, 10)

-----------------------------------------------------------------------------
(* Subjects without coordinates *)

\* C23: for a property with market value 0 and neither latitude/longitude
\* nor centroid coordinates, estimate_property_value performs no comparable
\* lookup, reports comparables_used = 0, and its method is ai_only or
\* no_estimate.
C23_NoCoordinatesNoLookup ==
    (EstCallUnknown /\ ~HasCoordinates) =>
        /\ raised = "none"
        /\ storeQueries = 0
        /\ locals.comparables = <<>>
        /\ result.comparables_used = 0
        /\ result.method \in {"ai_only", "no_estimate"}

\* C23 witness: a subject without coordinates is valued by the LLM alone,
\* in a store that holds priced parcels of its type.
C23_Witness ==
    /\ EstCallUnknown /\ ~HasCoordinates
    /\ \E r \in store : r.property_type = call.property_data.property_type
                        /\ r.total_value # None /\ r.total_value[1] > 0
    /\ result.method = "ai_only"
    /\ result.comparables_used = 0
    /\ storeQueries = 0

\* C23 witness, second case: the same without an address.
C23_WitnessNoEstimate ==
    /\ EstCallUnknown /\ ~HasCoordinates
    /\ call.property_data.property_address = ""
    /\ result.method = "no_estimate"
    /\ storeQueries = 0

-----------------------------------------------------------------------------
(* Comparables without a living area *)

\* a comparable of the lookup has a null or zero area_sqft while the subject
\* has a living area
UnsizedComparable ==
    /\ EstCallUnknown
    /\ call.property_data.building_sqft > 0
    /\ \E i \in 1..Len(locals.comparables) :
          \/ locals.comparables[i].area_sqft = None
          \/ locals.comparables[i].area_sqft[1] = 0

\* C24: estimate_property_value returns without raising for every property
\* with market value 0 and every set of comparables, those with a null or
\* zero area_sqft included, the subject having building_sqft > 0.
C24_NeverRaises ==
    EstCallUnknown => raised = "none"

\* the case of C24 that fails: a null area_sqft among the comparables
C24_NullAreaRaises ==
    /\ UnsizedComparable
    /\ raised = "TypeError"

-----------------------------------------------------------------------------
(* Value, confidence and method of an estimate *)

\* the call returned a result flagged as an estimate
Estimated == EstCall /\ raised = "none" /\ result.estimated

\* C25: in every result with estimated = true, value = 0 exactly when method
\* = no_estimate, and exactly then confidence = 0; every neighbor_only,
\* ai_only or combined result has value > 0 and confidence > 0.
C25_ZeroIffNoEstimate ==
    Estimated =>
        /\ (result.value = Rat(0, 1)) <=> (result.method = "no_estimate")
        /\ (result.confidence = Rat(0, 1)) <=> (result.method = "no_estimate")
        /\ result.method \in {"neighbor_only", "ai_only", "combined_agreement",
                              "combined_weighted"} =>
              /\ RatLT(Rat(0, 1), result.value)
              /\ RatLT(Rat(0, 1), result.confidence)

\* C25 witness: an estimate was attempted with comparables in range and an
\* address, both paths failed, and the result is the zero of no_estimate.
C25_Witness ==
    /\ Estimated
    /\ ComparablesInRange
    /\ call.property_data.property_address # ""
    /\ result.method = "no_estimate"
    /\ result.value = Rat(0, 1)
    /\ result.confidence = Rat(0, 1)

\* C25 witness, second case: a combined result, value and confidence above 0.
C25_WitnessCombined ==
    /\ Estimated
    /\ result.method = "combined_weighted"
    /\ RatLT(Rat(0, 1), result.value)
    /\ RatLT(Rat(0, 1), result.confidence)

-----------------------------------------------------------------------------
(* When the LLM is called *)

\* within the call every store access comes before every LLM call
LookupBeforeLLM ==
    \A i, j \in 1..Len(events) :
        (events[i] = "store" /\ events[j] = "llm") => i < j

\* C26: with an empty address the LLM is never called and the method is
\* neighbor_only or no_estimate; with a non-empty address the LLM is called
\* exactly once per call of estimate_property_value on a property with
\* market value 0, and only after the comparable lookup has finished.
C26_LLMCalledOnce ==
    EstCallUnknown =>
        /\ call.property_data.property_address = "" =>
              /\ llmCalls = 0
              /\ raised = "none" => result.method \in {"neighbor_only", "no_estimate"}
        /\ call.property_data.property_address # "" =>
              /\ llmCalls = 1
              /\ LookupBeforeLLM

\* the part of C26 that the code keeps: the same, for the calls that return
C26_LLMCalledOnceWhenReturning ==
    (EstCallUnknown /\ raised = "none") =>
        /\ call.property_data.property_address = "" =>
              /\ llmCalls = 0
              /\ result.method \in {"neighbor_only", "no_estimate"}
        /\ call.property_data.property_address # "" =>
              /\ llmCalls = 1
              /\ LookupBeforeLLM

\* a call on an addressed subject that ended without calling the LLM
C26_AddressedWithoutLLM ==
    /\ EstCallUnknown
    /\ call.property_data.property_address # ""
    /\ events = <<"store">>
    /\ llmCalls = 0

-----------------------------------------------------------------------------
(* The combined value lies between the two estimates *)

C27_WitnessEqual ==
    /\ BothPaths
    /\ locals.neighbor_estimate = locals.ai_estimate
    /\ result.value = locals.ai_estimate[1]

-----------------------------------------------------------------------------
(* The lowest score of a candidate *)

\* the search returned, its reference having a market value and a size
ValuedSizedReference ==
    /\ SimCall /\ raised = "none"
    /\ call.property_data.market_value > 0
    /\ call.property_data.building_sqft > 0

\* C28: for a reference with market value > 0 and building_sqft > 0, every
\* returned candidate has similarity at least 0.4: the filters bound the
\* value penalty by 0.06 and the size penalty by 0.04, and the distance
\* penalty is at most 0.5.
C28_ScoreAtLeast04 ==
    ValuedSizedReference =>
        \A i \in 1..Len(result) :
            LET c == result[i]
                distance == distance_miles(
                                ReferenceLat[1], ReferenceLon[1],
                                CHOOSE lat \in { r.centroid_lat[1] :
                                      r \in { x \in store :
                                                x.account_number = c.account_number } } : TRUE,
                                ReferenceLon[1])
            IN  /\ RatLE(Rat(4, 10), c.similarity.score)
                /\ RatLE(RatSub(RatSub(Rat(1, 1), RatMin(Rat(distance, 2000), Rat(5, 10))),
                                c.similarity.score),
                         Rat(1, 10))
                /\ Within20Percent(call.property_data.market_value, c.market_value)
                /\ Within20Percent(call.property_data.building_sqft, c.building_sqft)

\* C28 witness: a candidate a mile away, at 0.8 of the reference's value and
\* size, is returned with a score of exactly 0.4.
C28_Witness ==
    /\ ValuedSizedReference
    /\ \E i \in 1..Len(result) :
          /\ result[i].market_value * 10 = call.property_data.market_value * 8
          /\ result[i].building_sqft * 10 = call.property_data.building_sqft * 8
          /\ result[i].similarity.score = Rat(4, 10)

-----------------------------------------------------------------------------
(* What enhance_property_with_estimation changes *)

EnhanceCall == pc = "returned" /\ call.op = "enhance_property_with_estimation"

\* the fields the estimation may add
EstimationFields == {"value_estimation", "estimated_market_value", "estimation_confidence"}

C29_WitnessNoEstimate ==
    /\ EnhanceCall /\ raised = "none"
    /\ call.property_data.market_value = 0
    /\ result.value_estimation.method = "no_estimate"
    /\ DOMAIN result = DOMAIN call.property_data \cup {"value_estimation"}

\* C29 witness, third case: a record with a market value is returned as it
\* was given.
C29_WitnessActual ==
    /\ EnhanceCall /\ raised = "none"
    /\ call.property_data.market_value > 0
    /\ result = call.property_data
    /\ events = <<>>

-----------------------------------------------------------------------------
(* InMemoryCache: set, get and clear_expired in any order *)

\* bounds of the cache runs: set calls, get calls, clock readings
MaxSets == 2

MaxGets == 2

MaxNow == 2

Keys == {"k1", "k2"}

Values == {"v1", "v2"}

\* ttl_seconds of a set call
TTLs == {0, 1, 2}

InitCache ==
    /\ store = {}
    /\ db_pool = 0
    /\ perplexity_cache = <<>>
    /\ property_cache = InMemoryCache
    /\ now = 0
    /\ pc = "idle"
    /\ call = Idle
    /\ result = NoResult
    /\ raised = "none"
    /\ events = <<>>
    /\ locals = NoLocals

\* property_cache.set(key, value, ttl_seconds); events keeps the set calls
Set ==
    /\ Len(events) < MaxSets
    /\ \E key \in Keys, value \in Values, ttl_seconds \in TTLs :
          /\ property_cache' = InMemoryCache_set(property_cache, key, value, ttl_seconds, now)
          /\ call' = [op |-> "set", key |-> key, value |-> value,
                      ttl_seconds |-> ttl_seconds, at |-> now]
          /\ events' = Append(events, [key |-> key, value |-> value,
                                       ttl_seconds |-> ttl_seconds, at |-> now])
    /\ result' = None
    /\ locals' = NoLocals
    /\ UNCHANGED <<store, db_pool, perplexity_cache, now, pc, raised>>

\* property_cache.get(key)
Get ==
    /\ property_cache._access_count < MaxGets
    /\ \E key \in Keys :
          LET got == InMemoryCache_get(property_cache, key, now)
          IN  /\ property_cache' = got.self
              /\ call' = [op |-> "get", key |-> key, at |-> now]
              /\ result' = got.returned
              /\ locals' = [entry |-> got.entry]
    /\ UNCHANGED <<store, db_pool, perplexity_cache, now, pc, raised, events>>

\* property_cache.clear_expired()
ClearExpired ==
    /\ property_cache' = InMemoryCache_clear_expired(property_cache, now)
    /\ call' = [op |-> "clear_expired", at |-> now]
    /\ result' = None
    /\ locals' = NoLocals
    /\ UNCHANGED <<store, db_pool, perplexity_cache, now, pc, raised, events>>

\* a second passes
Tick ==
    /\ now < MaxNow
    /\ now' = now + 1
    /\ UNCHANGED <<store, db_pool, perplexity_cache, property_cache,
                   pc, call, result, raised, events, locals>>

NextCache == Set \/ Get \/ ClearExpired \/ Tick

SpecCache == InitCache /\ [][NextCache]_vars

\* the set calls on key so far, in order
SetsOf(key) == SelectSeq(events, LAMBDA e : e.key = key)

\* the last operation was a get
GetCall == call.op = "get"

\* C30: whatever sequence of set, get and clear_expired ran, get(key)
\* returns a value only if it is the value of the most recent set(key) and
\* that entry has not expired; an expired entry that get finds is removed;
\* hit_count never exceeds access_count.
C30_CacheSafety ==
    /\ property_cache._hit_count <= property_cache._access_count
    /\ (GetCall /\ result # None) =>
          LET sets == SetsOf(call.key)
          IN  /\ sets # <<>>
              /\ result = Some(sets[Len(sets)].value)
              /\ call.at < sets[Len(sets)].at + sets[Len(sets)].ttl_seconds
    /\ (GetCall /\ locals.entry # None /\ call.at >= locals.entry[1].expires_at) =>
          /\ result = None
          /\ call.key \notin DOMAIN property_cache._cache

\* C30 witness: a key is set twice with different values and get returns the
\* second.
C30_Witness ==
    /\ GetCall
    /\ Len(SetsOf(call.key)) = 2
    /\ SetsOf(call.key)[1].value # SetsOf(call.key)[2].value
    /\ result = Some(SetsOf(call.key)[2].value)
    /\ property_cache._hit_count > 0

\* C30 witness, second case: get finds an entry whose time has passed,
\* returns nothing and removes it.
C30_WitnessExpired ==
    /\ GetCall
    /\ locals.entry # None
    /\ locals.entry[1].created_at < locals.entry[1].expires_at
    /\ call.at >= locals.entry[1].expires_at
    /\ result = None
    /\ call.key \notin DOMAIN property_cache._cache
    /\ property_cache._hit_count < property_cache._access_count

====
